---- MODULE Spec2Model ----
(***************************************************************************)
(* Model of the "Moment" recommendation pipeline:                          *)
(*   services/youtubeService.ts  (formatDuration, searchVideos,            *)
(*                                getDurationRange)                        *)
(*   services/geminiService.ts   (fetchVideoSuggestion)                    *)
(*   App.tsx                     (handleFindMoment, handleReset)           *)
(***************************************************************************)
EXTENDS Integers, Sequences, FiniteSets, TLC

(***************************************************************************)
(* Bounds of the model.                                                    *)
(***************************************************************************)
\* longest item list the source answers to a mood search of the pipeline
MaxItems == 1
\* longest item list the source answers to a direct searchVideos call
MaxDetails == 3
\* largest maxResults a direct searchVideos call is made with
MaxResultsArg == 2
MaxMerged == 22

(***************************************************************************)
(* Program constants.                                                      *)
(***************************************************************************)
MIN_TIME == 5
MAX_TIME == 120
TIME_STEP == 5
\* geminiService.ts:70, "Get 15 results per query"
PerQueryResults == 15
\* geminiService.ts:84, "Limit to top 20 unique videos"
UniqueLimit == 20

\* an optional number that was not supplied (undefined)
Undefined == -1

(***************************************************************************)
(* Messages of the errors the services throw.                              *)
(***************************************************************************)
MsgQuota == "YouTube API quota exceeded or API key invalid. Please check your API key and quota."
MsgSearchApi == "YouTube Search API error: "
MsgDetails == "Failed to fetch video details from YouTube API"
MsgTypeError == "Cannot read properties of undefined (reading 'match')"
MsgTypeErrorNull == "Cannot read properties of null (reading 'selectedVideoId')"
MsgFetchFailed == "Failed to fetch"
MsgNoVideos == "No videos found matching your preferences. Try adjusting your time or mood selection."
MsgInvalidJson == "Invalid response from Gemini. Please try again."
MsgNoSelection == "Gemini did not select a valid video. Please try again."
MsgApiKey == "API key error. Please check your .env.local file and ensure both GEMINI_API_KEY and YOUTUBE_API_KEY are set correctly."
MsgApiQuota == "API quota exceeded. Please check your API usage limits."
MsgNetwork == "Network error. Please check your internet connection and try again."
MsgSelectMood == "Please select at least one mood."

\* String.prototype.includes
Includes(msg, needle) ==
  \E i \in 1..(Len(msg) - Len(needle) + 1) :
     SubSeq(msg, i, i + Len(needle) - 1) = needle

(***************************************************************************)
(* ISO-8601 durations.  A raw duration string is represented by what the   *)
(* regular expression /PT(?:(\d+)H)?(?:(\d+)M)?(?:(\d+)S)?/ sees in it:    *)
(*   kind "iso"       the string contains "PT", followed by the optional   *)
(*                    H, M and S groups (Undefined: the group is absent)   *)
(*   kind "nomatch"   a string without "PT" ("", "P1D", "P1DT2H")          *)
(*   kind "undefined" contentDetails carries no duration at all            *)
(***************************************************************************)
Iso(h, m, s) == [kind |-> "iso", h |-> h, m |-> m, s |-> s]
NoMatchDuration == [kind |-> "nomatch", h |-> Undefined, m |-> Undefined, s |-> Undefined]
UndefinedDuration == [kind |-> "undefined", h |-> Undefined, m |-> Undefined, s |-> Undefined]

\* parseInt(match[i] || '0', 10)
GroupValue(g) == IF g = Undefined THEN 0 ELSE g

\* hours * 3600 + minutes * 60 + seconds
TotalSeconds(raw) ==
  GroupValue(raw.h) * 3600 + GroupValue(raw.m) * 60 + GroupValue(raw.s)

\* PadStart2 without the padding
PadStart2Unpadded(n) == ToString(n)

\* n.toString().padStart(2, '0')
PadStart2(n) == IF n < 10 THEN "0" \o ToString(n) ELSE ToString(n)

formatDuration(raw) ==
  IF raw.kind # "iso" THEN "0:00"
  ELSE LET hours == GroupValue(raw.h)
           minutes == GroupValue(raw.m)
           seconds == GroupValue(raw.s)
       IN IF hours > 0
          THEN ToString(hours) \o ":" \o PadStart2(minutes) \o ":" \o PadStart2(seconds)
          ELSE ToString(minutes) \o ":" \o PadStart2(seconds)

\* the string the source writes for a video of d seconds (zero components
\* are left out, as in "PT12M")
IsoOfSeconds(d) ==
  LET h == d \div 3600
      m == (d % 3600) \div 60
      s == d % 60
      G(x) == IF x = 0 THEN Undefined ELSE x
  IN Iso(G(h), G(m), G(s))

(***************************************************************************)
(* getDurationRange                                                        *)
(***************************************************************************)
Max(a, b) == IF a >= b THEN a ELSE b
Min(a, b) == IF a <= b THEN a ELSE b

\* getDurationRange with the lower end clamped to 60 whenever the target is the
\* smallest one
getDurationRangeClamped(targetMinutes) ==
  [min |-> IF targetMinutes <= 5 THEN 60 ELSE Max(60, (targetMinutes * 8 * 60) \div 10),
   max |-> targetMinutes * 2 * 60]

\* Math.floor(targetMinutes * 0.8 * 60) and Math.floor(targetMinutes * 2 * 60)
getDurationRange(targetMinutes) ==
  [min |-> Max(60, (targetMinutes * 8 * 60) \div 10),
   max |-> targetMinutes * 2 * 60]

(***************************************************************************)
(* What the video source answers.                                          *)
(*   search call:  kind "throw" (fetch rejects), "http" (non-2xx: status,  *)
(*                 whether the body parses as JSON, and the top-level code *)
(*                 and message of that JSON), "ok" (the item videoIds, ""  *)
(*                 for an item without one)                                *)
(*   videos call:  kind "throw", "http" or "ok" (the items)                *)
(***************************************************************************)
SearchThrow == [kind |-> "throw", status |-> 0, bodyJson |-> FALSE, bodyCode |-> Undefined, bodyMessage |-> "", ids |-> <<>>]
SearchHttp(status, bodyJson, bodyCode, bodyMessage) ==
  [kind |-> "http", status |-> status, bodyJson |-> bodyJson, bodyCode |-> bodyCode, bodyMessage |-> bodyMessage, ids |-> <<>>]
SearchOk(ids) == [kind |-> "ok", status |-> 200, bodyJson |-> TRUE, bodyCode |-> Undefined, bodyMessage |-> "", ids |-> ids]

DetailsThrow == [kind |-> "throw", status |-> 0, items |-> <<>>]
DetailsHttp(status) == [kind |-> "http", status |-> status, items |-> <<>>]
DetailsOk(items) == [kind |-> "ok", status |-> 200, items |-> items]

StatusText(status) ==
  CASE status = 400 -> "Bad Request"
    [] status = 403 -> "Forbidden"
    [] OTHER -> "Internal Server Error"

\* an item of the videos response
NoThumbnails == [high |-> "", medium |-> "", default |-> ""]
NoSnippet == [present |-> FALSE, title |-> "", channelTitle |-> "", thumbnails |-> NoThumbnails]
Snippet(title, channelTitle, thumbnails) ==
  [present |-> TRUE, title |-> title, channelTitle |-> channelTitle, thumbnails |-> thumbnails]
NoContentDetails == [present |-> FALSE, duration |-> UndefinedDuration]
ContentDetails(duration) == [present |-> TRUE, duration |-> duration]
Item(id, snippet, contentDetails) ==
  [id |-> id, snippet |-> snippet, contentDetails |-> contentDetails]

(***************************************************************************)
(* searchVideos                                                            *)
(***************************************************************************)
\* Math.min(maxResults * 2, 50), the maxResults parameter of the search call
SearchMaxResultsParam(maxResults) == Min(maxResults * 2, 50)

\* the videoDuration parameter of the search call
VideoDurationParam(maxDurationSeconds) ==
  IF maxDurationSeconds # Undefined
  THEN IF maxDurationSeconds <= 240 THEN "short"
       ELSE IF maxDurationSeconds <= 1200 THEN "medium"
       ELSE "long"
  ELSE "medium"

\* thumbnails?.high?.url || thumbnails?.medium?.url || thumbnails?.default?.url || ''
ThumbnailUrl(thumbnails) ==
  IF thumbnails.high # "" THEN thumbnails.high
  ELSE IF thumbnails.medium # "" THEN thumbnails.medium
  ELSE thumbnails.default

\* the YouTubeVideoData pushed for an item
VideoData(video) ==
  [videoId |-> video.id,
   title |-> video.snippet.title,
   channelName |-> video.snippet.channelTitle,
   duration |-> video.contentDetails.duration,
   durationFormatted |-> formatDuration(video.contentDetails.duration),
   thumbnailUrl |-> ThumbnailUrl(video.snippet.thumbnails)]

\* OutsideRange without the test of the upper end
OutsideRangeMinOnly(totalSeconds, minDurationSeconds, maxDurationSeconds) ==
  minDurationSeconds # Undefined /\ totalSeconds < minDurationSeconds

\* minDurationSeconds !== undefined && totalSeconds < minDurationSeconds, or
\* maxDurationSeconds !== undefined && totalSeconds > maxDurationSeconds
OutsideRange(totalSeconds, minDurationSeconds, maxDurationSeconds) ==
  \/ minDurationSeconds # Undefined /\ totalSeconds < minDurationSeconds
  \/ maxDurationSeconds # Undefined /\ totalSeconds > maxDurationSeconds

\* results.length >= maxResults, tested after each push
EnoughResults(results, maxResults) == Len(results) >= maxResults

\* the loop over detailsData.items; threw: duration.match was called on an
\* undefined duration
RECURSIVE FilterItems(_, _, _, _, _)
FilterItems(items, results, maxResults, minDurationSeconds, maxDurationSeconds) ==
  IF items = <<>> THEN [threw |-> FALSE, results |-> results]
  ELSE LET video == Head(items)
           rest == Tail(items)
           Continue == FilterItems(rest, results, maxResults, minDurationSeconds, maxDurationSeconds)
       IN IF ~video.snippet.present \/ ~video.contentDetails.present THEN Continue
          ELSE IF video.contentDetails.duration.kind = "undefined"
               THEN [threw |-> TRUE, results |-> results]
          ELSE IF video.contentDetails.duration.kind = "nomatch" THEN Continue
          ELSE IF OutsideRange(TotalSeconds(video.contentDetails.duration),
                               minDurationSeconds, maxDurationSeconds) THEN Continue
          ELSE LET pushed == Append(results, VideoData(video))
               IN IF EnoughResults(pushed, maxResults)
                  THEN [threw |-> FALSE, results |-> pushed]
                  ELSE FilterItems(rest, pushed, maxResults, minDurationSeconds, maxDurationSeconds)

Resolved(videos) == [ok |-> TRUE, error |-> "", videos |-> videos]
Rejected(message) == [ok |-> FALSE, error |-> message, videos |-> <<>>]

\* errorData: the parsed body, or {code: status, message: `HTTP ${status}: ...`}
ErrorDataCode(resp) == IF resp.bodyJson THEN resp.bodyCode ELSE resp.status
ErrorDataMessage(resp) ==
  IF resp.bodyJson THEN resp.bodyMessage
  ELSE "HTTP " \o ToString(resp.status) \o ": " \o StatusText(resp.status)

\* the branch taken on a non-2xx answer of the search call
SearchHttpError(resp) ==
  IF ErrorDataCode(resp) = 403 THEN MsgQuota
  ELSE MsgSearchApi \o (IF ErrorDataMessage(resp) # "" THEN ErrorDataMessage(resp)
                        ELSE StatusText(resp.status))

\* the branch taken on a non-2xx answer of the videos call
DetailsHttpError(resp) == MsgDetails

\* searchData.items.map(item => item.id.videoId).filter(Boolean)
VideoIds(ids) == SelectSeq(ids, LAMBDA id : id # "")

searchVideos(maxResults, minDurationSeconds, maxDurationSeconds, searchResponse, detailsResponse) ==
  IF searchResponse.kind = "throw" THEN Rejected(MsgFetchFailed)
  ELSE IF searchResponse.kind = "http" THEN Rejected(SearchHttpError(searchResponse))
  ELSE IF searchResponse.ids = <<>> THEN Resolved(<<>>)
  ELSE IF VideoIds(searchResponse.ids) = <<>> THEN Resolved(<<>>)
  ELSE IF detailsResponse.kind = "throw" THEN Rejected(MsgFetchFailed)
  ELSE IF detailsResponse.kind = "http" THEN Rejected(DetailsHttpError(detailsResponse))
  ELSE IF detailsResponse.items = <<>> THEN Resolved(<<>>)
  ELSE LET loop == FilterItems(detailsResponse.items, <<>>, maxResults,
                               minDurationSeconds, maxDurationSeconds)
       IN IF loop.threw THEN Rejected(MsgTypeError) ELSE Resolved(loop.results)

(***************************************************************************)
(* fetchVideoSuggestion: the pure parts                                    *)
(***************************************************************************)
\* a mood label: its words and its emoji, as in "Curious" + thinking face
Mood(text, emoji) == [text |-> text, emoji |-> emoji]

\* mood.replace(/[^\w\s]/g, '').trim() || mood
SearchQuery(mood) ==
  IF mood.text # "" THEN mood.text ELSE mood.text \o " " \o mood.emoji

\* moods.map(...)
RECURSIVE SearchQueries(_)
SearchQueries(moods) ==
  IF moods = <<>> THEN <<>>
  ELSE <<SearchQuery(Head(moods))>> \o SearchQueries(Tail(moods))

\* Map.prototype.set: a key already present keeps its position and takes the
\* new value, a new key is added at the end
MapSet(entries, v) ==
  IF \E i \in DOMAIN entries : entries[i].videoId = v.videoId
  THEN [i \in DOMAIN entries |->
          IF entries[i].videoId = v.videoId THEN v ELSE entries[i]]
  ELSE Append(entries, v)

\* new Map(allVideos.map(v => [v.videoId, v])).values()
RECURSIVE MapValues(_, _)
MapValues(videos, entries) ==
  IF videos = <<>> THEN entries
  ELSE MapValues(Tail(videos), MapSet(entries, Head(videos)))

\* .slice(0, 20)
Slice(seq, n) == SubSeq(seq, 1, Min(Len(seq), n))

\* UniqueVideos with the cap applied before the deduplication
UniqueVideosCapFirst(allVideos) == MapValues(Slice(allVideos, UniqueLimit), <<>>)

UniqueVideos(allVideos) == Slice(MapValues(allVideos, <<>>), UniqueLimit)

\* What the oracle answers:
\*   kind "throw"    generateContent rejects with an error of that message
\*   kind "invalid"  the text is not JSON
\*   kind "null"     the text is the JSON value null
\*   kind "object"   a JSON object; a field that is absent has present FALSE
Absent == [present |-> FALSE, value |-> ""]
Present(v) == [present |-> TRUE, value |-> v]
AbsentTags == [present |-> FALSE, value |-> <<>>]
OracleThrow(message) ==
  [kind |-> "throw", message |-> message, selectedVideoId |-> Absent,
   tags |-> AbsentTags, promotionalSummary |-> Absent]
OracleInvalid ==
  [kind |-> "invalid", message |-> "", selectedVideoId |-> Absent,
   tags |-> AbsentTags, promotionalSummary |-> Absent]
OracleNull ==
  [kind |-> "null", message |-> "", selectedVideoId |-> Absent,
   tags |-> AbsentTags, promotionalSummary |-> Absent]
OracleObject(selectedVideoId, tags, promotionalSummary) ==
  [kind |-> "object", message |-> "", selectedVideoId |-> selectedVideoId,
   tags |-> tags, promotionalSummary |-> promotionalSummary]

\* a value in a boolean context: undefined and '' are falsy
Truthy(field) == field.present /\ field.value # ""

\* the VideoSuggestion
NullSuggestion ==
  [title |-> "", youtubeUrl |-> "", thumbnailUrl |-> "", channelName |-> "",
   duration |-> "", tags |-> <<>>, promotionalSummary |-> Absent]
WatchUrl(videoId) == "https://www.youtube.com/watch?v=" \o videoId
Returned(suggestion) == [ok |-> TRUE, error |-> "", suggestion |-> suggestion]
Thrown(message) == [ok |-> FALSE, error |-> message, suggestion |-> NullSuggestion]

\* selectionData.tags || []
TagsOrEmpty(tags) == IF tags.present THEN tags.value ELSE <<>>

\* selectionData.promotionalSummary || `A perfect ${time}-minute video ...`
SummaryOrGeneric(summary, time) ==
  IF Truthy(summary) THEN summary
  ELSE Present("A perfect " \o ToString(time) \o "-minute video for your current mood.")

\* FallbackVideo taking the last candidate
FallbackVideoLast(uniqueVideos) == uniqueVideos[Len(uniqueVideos)]

\* the video the fallback branch takes: uniqueVideos[0]
FallbackVideo(uniqueVideos) == uniqueVideos[1]

\* FallbackSuggestion with the watch URL built from the identity the oracle
\* named
FallbackSuggestionOracleUrl(uniqueVideos, selectionData, time) ==
  LET fallbackVideo == uniqueVideos[1]
  IN [title |-> fallbackVideo.title,
      youtubeUrl |-> "https://www.youtube.com/watch?v=" \o selectionData.selectedVideoId.value,
      thumbnailUrl |-> fallbackVideo.thumbnailUrl,
      channelName |-> fallbackVideo.channelName,
      duration |-> fallbackVideo.durationFormatted,
      tags |-> IF selectionData.tags.present THEN selectionData.tags.value ELSE <<>>,
      promotionalSummary |-> selectionData.promotionalSummary]

\* the object returned by the fallback branch
FallbackSuggestion(uniqueVideos, selectionData, time) ==
  LET fallbackVideo == FallbackVideo(uniqueVideos)
  IN [title |-> fallbackVideo.title,
      youtubeUrl |-> WatchUrl(fallbackVideo.videoId),
      thumbnailUrl |-> fallbackVideo.thumbnailUrl,
      channelName |-> fallbackVideo.channelName,
      duration |-> fallbackVideo.durationFormatted,
      tags |-> TagsOrEmpty(selectionData.tags),
      promotionalSummary |-> SummaryOrGeneric(selectionData.promotionalSummary, time)]

\* the suggestion constructed in step 5
SelectedSuggestion(selectedVideo, selectionData) ==
  [title |-> selectedVideo.title,
   youtubeUrl |-> WatchUrl(selectedVideo.videoId),
   thumbnailUrl |-> selectedVideo.thumbnailUrl,
   channelName |-> selectedVideo.channelName,
   duration |-> selectedVideo.durationFormatted,
   tags |-> TagsOrEmpty(selectionData.tags),
   promotionalSummary |-> selectionData.promotionalSummary]

\* uniqueVideos.find(v => v.videoId === selectionData.selectedVideoId)
FindIndex(uniqueVideos, videoId) ==
  IF \E i \in DOMAIN uniqueVideos : uniqueVideos[i].videoId = videoId
  THEN CHOOSE i \in DOMAIN uniqueVideos :
         /\ uniqueVideos[i].videoId = videoId
         /\ \A j \in DOMAIN uniqueVideos : uniqueVideos[j].videoId = videoId => i <= j
  ELSE 0

\* the check of the parsed selection: TRUE when the code throws
SelectionRejected(selectionData) == ~Truthy(selectionData.selectedVideoId)

\* from the oracle's answer to the value returned or the error thrown inside
\* the try block
Select(uniqueVideos, response, time) ==
  IF response.kind = "throw" THEN Thrown(response.message)
  ELSE IF response.kind = "invalid" THEN Thrown(MsgInvalidJson)
  ELSE IF response.kind = "null" THEN Thrown(MsgTypeErrorNull)
  ELSE IF SelectionRejected(response) THEN Thrown(MsgNoSelection)
  ELSE LET i == FindIndex(uniqueVideos, response.selectedVideoId.value)
       IN IF i = 0
          THEN Returned(FallbackSuggestion(uniqueVideos, response, time))
          ELSE Returned(SelectedSuggestion(uniqueVideos[i], response))

\* the outer catch block: the error the caller receives
CatchError(message) ==
  IF Includes(message, "API_KEY") \/ Includes(message, "apiKey") THEN MsgApiKey
  ELSE IF Includes(message, "quota") \/ Includes(message, "Quota") THEN MsgApiQuota
  ELSE IF Includes(message, "network") \/ Includes(message, "fetch") THEN MsgNetwork
  ELSE message

\* a value or error leaving the try block, as the caller sees it
Outcome(r) == IF r.ok THEN r ELSE Thrown(CatchError(r.error))

\* TrySearch without the catch: the error of a failed search leaves the loop
TrySearchRethrow(allVideos, r) ==
  [aborted |-> ~r.ok,
   allVideos |-> IF r.ok THEN allVideos \o r.videos ELSE allVideos]

\* the try/catch around one searchVideos call of the loop: the videos are
\* pushed onto allVideos, an error is logged and the loop goes on
TrySearch(allVideos, r) ==
  [aborted |-> FALSE,
   allVideos |-> IF r.ok THEN allVideos \o r.videos ELSE allVideos]

(***************************************************************************)
(* The inputs of the model.                                                *)
(***************************************************************************)
SeqsUpTo(S, n) == UNION {[1..k -> S] : k \in 0..n}

\* two of the twelve moods of MoodSelector
MoodCurious == Mood("Curious", "thinking-face")
MoodLaugh == Mood("Need a laugh", "joy")
Moods == {MoodCurious, MoodLaugh}

\* pointer angles of the dial, in degrees
Angles == 0..359

ThumbsHigh == [high |-> "hq.jpg", medium |-> "mq.jpg", default |-> "default.jpg"]
ThumbsDefault == [high |-> "", medium |-> "", default |-> "default2.jpg"]
SnippetA == Snippet("Title A", "Channel A", ThumbsHigh)
SnippetB == Snippet("Title B", "Channel B", ThumbsDefault)

\* items the source may list for a search made with the band `range`:
\* on and just outside both ends of the band, one identity listed with two
\* different snapshots, and the three kinds of unusable item
PipelineItems(range) ==
  { Item("v1", SnippetA, ContentDetails(IsoOfSeconds(range.min))),
    Item("v1", SnippetB, ContentDetails(IsoOfSeconds(range.max))),
    Item("v2", SnippetB, ContentDetails(IsoOfSeconds(range.max))),
    Item("v2", SnippetA, ContentDetails(IsoOfSeconds(range.min - 1))),
    Item("v1", SnippetA, ContentDetails(IsoOfSeconds(range.max + 1))),
    Item("v2", SnippetA, ContentDetails(NoMatchDuration)),
    Item("v2", NoSnippet, ContentDetails(IsoOfSeconds(range.min))),
    Item("v1", SnippetA, ContentDetails(UndefinedDuration)) }

ItemIds(items) == [i \in DOMAIN items |-> items[i].id]

Source(search, details) == [search |-> search, details |-> details]

\* answers of the source to one mood search of the pipeline
PipelineSources(range) ==
  { Source(SearchHttp(403, TRUE, 403, "quotaExceeded"), DetailsOk(<<>>)),
    Source(SearchHttp(500, FALSE, Undefined, ""), DetailsOk(<<>>)) }
  \cup { Source(SearchOk(IF items = <<>> THEN <<"v1">> ELSE ItemIds(items)), DetailsOk(items)) :
           items \in SeqsUpTo(PipelineItems(range), MaxItems) }

\* answers of the oracle
OracleResponses ==
  { OracleThrow(m) : m \in {"API_KEY_INVALID", "Resource has been exhausted (e.g. check quota).",
                            "fetch failed", "Internal error encountered."} }
  \cup { OracleInvalid, OracleNull }
  \cup { OracleObject(id, tags, summary) :
           id \in {Absent, Present(""), Present("v1"), Present("v2"), Present("ghost")},
           tags \in {AbsentTags, [present |-> TRUE, value |-> <<"Science", "Physics", "Aviation">>]},
           summary \in {Absent, Present("A compelling summary.")} }

(***************************************************************************)
(* State.                                                                  *)
(***************************************************************************)
VARIABLES
  selectedTime,    \* App: useState<number>(15)
  selectedMoods,   \* App: useState<string[]>
  suggestion,      \* App: useState<VideoSuggestion | null>, NullSuggestion is null
  isLoading,       \* App: useState<boolean>
  error,           \* App: useState<string | null>, "" is null
  pc,              \* where the fetchVideoSuggestion call stands
  time,            \* fetchVideoSuggestion: argument
  moods,           \* fetchVideoSuggestion: argument
  durationRange,   \* fetchVideoSuggestion: const durationRange
  qi,              \* fetchVideoSuggestion: index of the query awaited in the loop
  allVideos,       \* fetchVideoSuggestion: let allVideos
  searchLog,       \* the searchVideos calls made so far and how each settled
  uniqueVideos,    \* fetchVideoSuggestion: const uniqueVideos
  oracleCalls,     \* number of generateContent calls made by this request
  oracleResponse,  \* the answer of the oracle
  result,          \* what fetchVideoSuggestion returned or threw
  inFlight,        \* fetchVideoSuggestion calls started by App and not yet settled
  svCall,          \* a direct searchVideos call: its arguments and the source's answers
  svResult,        \* a direct searchVideos call: what it returned or threw
  fdDuration,      \* direct formatDuration calls: the argument
  fdResult,        \* direct formatDuration calls: the strings returned, one per call
  mgAllVideos,     \* the merge step on its own: the merged results
  mgUniqueVideos,  \* the merge step on its own: the candidate list built
  mgCalled         \* the merge step on its own: whether it ran

appVars == <<selectedTime, selectedMoods, suggestion, isLoading, error>>
frameVars == <<pc, time, moods, durationRange, qi, allVideos, searchLog,
               uniqueVideos, oracleCalls, oracleResponse, result, inFlight>>
svVars == <<svCall, svResult>>
fdVars == <<fdDuration, fdResult>>
mgVars == <<mgAllVideos, mgUniqueVideos, mgCalled>>
vars == <<appVars, frameVars, svVars, fdVars, mgVars>>

NoRange == [min |-> 0, max |-> 0]
NoResult == Thrown("")
NoCall == [maxResults |-> 0, minDurationSeconds |-> Undefined, maxDurationSeconds |-> Undefined,
           search |-> SearchThrow, details |-> DetailsThrow, called |-> FALSE]

FrameIdle ==
  /\ pc = "idle" /\ time = 0 /\ moods = <<>> /\ durationRange = NoRange
  /\ qi = 0 /\ allVideos = <<>> /\ searchLog = <<>> /\ uniqueVideos = <<>>
  /\ oracleCalls = 0 /\ oracleResponse = OracleInvalid /\ result = NoResult

Init ==
  /\ selectedTime = 15
  /\ selectedMoods = <<MoodCurious>>
  /\ suggestion = NullSuggestion
  /\ isLoading = FALSE
  /\ error = ""
  /\ FrameIdle
  /\ inFlight = 0
  /\ svCall = NoCall
  /\ svResult = Rejected("")
  /\ fdDuration = NoMatchDuration
  /\ fdResult = <<>>
  /\ mgAllVideos = <<>>
  /\ mgUniqueVideos = <<>>
  /\ mgCalled = FALSE

(***************************************************************************)
(* App                                                                     *)
(***************************************************************************)
\* angleToTime rounding to whole minutes instead of to TIME_STEP
angleToTimeWholeMinutes(angle) ==
  LET timeRange == MAX_TIME - MIN_TIME
      rounded == (2 * (MIN_TIME * 360 + angle * timeRange) + 360) \div (2 * 360)
  IN Max(MIN_TIME, Min(MAX_TIME, rounded))

\* TimeSelector.angleToTime: Math.round((MIN_TIME + angle / 360 * range) / TIME_STEP)
\* * TIME_STEP, clamped to [MIN_TIME, MAX_TIME]; Math.round is floor(x + 1/2)
angleToTime(angle) ==
  LET timeRange == MAX_TIME - MIN_TIME
      rounded == ((2 * (MIN_TIME * 360 + angle * timeRange) + TIME_STEP * 360)
                    \div (2 * TIME_STEP * 360)) * TIME_STEP
  IN Max(MIN_TIME, Min(MAX_TIME, rounded))

\* renderContent reaches its last branch: the selectors and the Find button
FormRendered == ~isLoading /\ error = "" /\ suggestion = NullSuggestion

\* renderContent shows the error panel (Try Again) or the card (Find Another)
ResetRendered == ~isLoading /\ (error # "" \/ suggestion # NullSuggestion)

\* disabled={isLoading || selectedMoods.length === 0}
FindDisabled == isLoading \/ selectedMoods = <<>>

\* FindClickable with a button that stays rendered and enabled while a request
\* is loading
FindClickableWhileLoading ==
  error = "" /\ suggestion = NullSuggestion /\ selectedMoods # <<>>

\* the Find button is rendered and enabled
FindClickable == FormRendered /\ ~FindDisabled

\* AfterAwait with the error set on every path
AfterAwaitErrorAlways(r, shownSuggestion, shownError) ==
  IF r.ok
  THEN [suggestion |-> r.suggestion, error |-> "An unknown error occurred."]
  ELSE [suggestion |-> shownSuggestion, error |-> r.error]

\* what handleFindMoment leaves in suggestion and error after its await:
\* setSuggestion(result) in the try block, setError(message) in the catch block
AfterAwait(r, shownSuggestion, shownError) ==
  IF r.ok
  THEN [suggestion |-> r.suggestion, error |-> shownError]
  ELSE [suggestion |-> shownSuggestion, error |-> r.error]

\* MoodSelector.handleMoodClick
handleMoodClick(mood) ==
  /\ FormRendered
  /\ selectedMoods' = IF \E i \in DOMAIN selectedMoods : selectedMoods[i] = mood
                      THEN SelectSeq(selectedMoods, LAMBDA m : m # mood)
                      ELSE Append(selectedMoods, mood)
  /\ UNCHANGED <<selectedTime, suggestion, isLoading, error, frameVars, svVars, fdVars, mgVars>>

\* TimeSelector.handleInteraction
handleInteraction(angle) ==
  /\ FormRendered
  /\ selectedTime' = angleToTime(angle)
  /\ UNCHANGED <<selectedMoods, suggestion, isLoading, error, frameVars, svVars, fdVars, mgVars>>

\* App.handleFindMoment up to its await, and fetchVideoSuggestion up to the
\* await of the first searchVideos call
handleFindMoment ==
  /\ FindClickable
  /\ IF selectedMoods = <<>>
     THEN /\ error' = MsgSelectMood
          /\ UNCHANGED <<suggestion, isLoading, frameVars>>
     ELSE /\ isLoading' = TRUE
          /\ error' = ""
          /\ suggestion' = NullSuggestion
          /\ inFlight' = inFlight + 1
          /\ time' = selectedTime
          /\ moods' = selectedMoods
          /\ durationRange' = getDurationRange(selectedTime)
          /\ allVideos' = <<>>
          /\ qi' = 1
          /\ pc' = "searching"
          /\ searchLog' = <<>> /\ uniqueVideos' = <<>> /\ oracleCalls' = 0
          /\ oracleResponse' = OracleInvalid /\ result' = NoResult
  /\ UNCHANGED <<selectedTime, selectedMoods, svVars, fdVars, mgVars>>

\* App.handleReset
handleReset ==
  /\ ResetRendered
  /\ suggestion' = NullSuggestion
  /\ error' = ""
  /\ isLoading' = FALSE
  /\ UNCHANGED <<selectedTime, selectedMoods, frameVars, svVars, fdVars, mgVars>>

(***************************************************************************)
(* fetchVideoSuggestion                                                    *)
(***************************************************************************)
LogEntry(query, r) ==
  [query |-> query, maxResults |-> PerQueryResults,
   minDurationSeconds |-> durationRange.min, maxDurationSeconds |-> durationRange.max,
   videoDuration |-> VideoDurationParam(durationRange.max),
   ok |-> r.ok, error |-> r.error, videos |-> r.videos]

\* NextQueryIndex repeating a query whose search failed
NextQueryIndexRetry(i, r) == IF r.ok THEN i + 1 ELSE i

\* for (const query of searchQueries): the index of the query searched after
\* the one at qi settled with r
NextQueryIndex(i, r) == i + 1

\* the searchVideos call for searchQueries[qi] settles; the loop goes on to the
\* next query, or ends: deduplication, the empty check and the oracle request
SearchSettled ==
  /\ pc = "searching"
  /\ \E src \in PipelineSources(durationRange) :
       LET query == SearchQueries(moods)[qi]
           r == searchVideos(PerQueryResults, durationRange.min, durationRange.max,
                             src.search, src.details)
           try == TrySearch(allVideos, r)
           unique == UniqueVideos(try.allVideos)
       IN /\ searchLog' = Append(searchLog, LogEntry(query, r))
          /\ allVideos' = try.allVideos
          /\ IF try.aborted
             THEN /\ result' = Outcome(Thrown(r.error))
                  /\ pc' = "returned"
                  /\ UNCHANGED <<qi, uniqueVideos, oracleCalls>>
             ELSE IF NextQueryIndex(qi, r) <= Len(moods)
             THEN /\ qi' = NextQueryIndex(qi, r)
                  /\ UNCHANGED <<pc, uniqueVideos, oracleCalls, result>>
             ELSE /\ uniqueVideos' = unique
                  /\ IF Len(unique) = 0
                     THEN /\ result' = Outcome(Thrown(MsgNoVideos))
                          /\ pc' = "returned"
                          /\ UNCHANGED <<qi, oracleCalls>>
                     ELSE /\ oracleCalls' = oracleCalls + 1
                          /\ pc' = "selecting"
                          /\ UNCHANGED <<qi, result>>
  /\ UNCHANGED <<appVars, time, moods, durationRange, oracleResponse, inFlight, svVars, fdVars, mgVars>>

\* the generateContent call settles: parse, reconcile, assemble
OracleSettled ==
  /\ pc = "selecting"
  /\ \E response \in OracleResponses :
       /\ oracleResponse' = response
       /\ result' = Outcome(Select(uniqueVideos, response, time))
  /\ pc' = "returned"
  /\ UNCHANGED <<appVars, time, moods, durationRange, qi, allVideos, searchLog,
                 uniqueVideos, oracleCalls, inFlight, svVars, fdVars, mgVars>>

\* App.handleFindMoment after its await: setSuggestion or setError, then the
\* finally block
FindMomentSettled ==
  /\ pc = "returned"
  /\ suggestion' = AfterAwait(result, suggestion, error).suggestion
  /\ error' = AfterAwait(result, suggestion, error).error
  /\ isLoading' = FALSE
  /\ inFlight' = inFlight - 1
  /\ pc' = "idle" /\ time' = 0 /\ moods' = <<>> /\ durationRange' = NoRange
  /\ qi' = 0 /\ allVideos' = <<>> /\ searchLog' = <<>> /\ uniqueVideos' = <<>>
  /\ oracleCalls' = 0 /\ oracleResponse' = OracleInvalid /\ result' = NoResult
  /\ UNCHANGED <<selectedTime, selectedMoods, svVars, fdVars, mgVars>>

Next ==
  \/ \E mood \in Moods : handleMoodClick(mood)
  \/ \E angle \in Angles : handleInteraction(angle)
  \/ handleFindMoment
  \/ SearchSettled
  \/ OracleSettled
  \/ FindMomentSettled
  \/ handleReset

Spec == Init /\ [][Next]_vars

\* Spec with every awaited call settling: the searches, the oracle request and
\* the fetchVideoSuggestion promise awaited by handleFindMoment
SpecLive ==
  /\ Init /\ [][Next]_vars
  /\ WF_vars(SearchSettled)
  /\ WF_vars(OracleSettled)
  /\ WF_vars(FindMomentSettled)

(***************************************************************************)
(* formatDuration called on its own, twice on the same string.             *)
(***************************************************************************)
DurationComponents == {Undefined, 0, 1, 2, 3, 5, 9, 10, 45, 59, 75, 100}

DirectDurations ==
  {NoMatchDuration}
  \cup { Iso(h, m, s) : h \in DurationComponents, m \in DurationComponents,
                        s \in DurationComponents }

CallFormatDuration ==
  /\ fdResult = <<>>
  /\ \E isoDuration \in DirectDurations :
       /\ fdDuration' = isoDuration
       /\ fdResult' = <<formatDuration(isoDuration)>>
  /\ UNCHANGED <<appVars, frameVars, svVars, mgVars>>

CallFormatDurationAgain ==
  /\ Len(fdResult) = 1
  /\ fdResult' = Append(fdResult, formatDuration(fdDuration))
  /\ UNCHANGED <<appVars, frameVars, svVars, fdDuration, mgVars>>

NextFormat == CallFormatDuration \/ CallFormatDurationAgain

SpecFormat == Init /\ [][NextFormat]_vars

(***************************************************************************)
(* The merge step of fetchVideoSuggestion on its own: lists of up to       *)
(* MaxMerged distinct videos, with one video possibly returned a second    *)
(* time by a later search.                                                 *)
(***************************************************************************)
MergedId(i) == "v" \o ToString(i)

MergedVideo(i, snippet) ==
  VideoData(Item(MergedId(i), snippet, ContentDetails(IsoOfSeconds(60))))

DistinctVideos(n) == [i \in 1..n |-> MergedVideo(i, SnippetA)]

InsertAt(seq, q, e) == SubSeq(seq, 1, q - 1) \o <<e>> \o SubSeq(seq, q, Len(seq))

MergedLists ==
  { DistinctVideos(n) : n \in 0..MaxMerged }
  \cup UNION { UNION { { InsertAt(DistinctVideos(n), q, MergedVideo(p, SnippetB)) :
                          q \in (p + 1)..(n + 1) } :
                      p \in 1..n } :
                n \in 1..MaxMerged }

MergeResults ==
  /\ ~mgCalled
  /\ \E merged \in MergedLists :
       /\ mgAllVideos' = merged
       /\ mgUniqueVideos' = UniqueVideos(merged)
       /\ mgCalled' = TRUE
  /\ UNCHANGED <<appVars, frameVars, svVars, fdVars>>

NextMerge == MergeResults

SpecMerge == Init /\ [][NextMerge]_vars

(***************************************************************************)
(* searchVideos called on its own, with any arguments and any answers of   *)
(* the source.                                                             *)
(***************************************************************************)
DirectRange == [min |-> 60, max |-> 240]
DirectMin == DirectRange.min
DirectMax == DirectRange.max

DirectItems ==
  { Item("v1", SnippetA, ContentDetails(IsoOfSeconds(DirectMin - 1))),
    Item("v1", SnippetB, ContentDetails(IsoOfSeconds(DirectMin))),
    Item("v2", SnippetA, ContentDetails(IsoOfSeconds(DirectMax))),
    Item("v2", SnippetB, ContentDetails(IsoOfSeconds(DirectMax + 1))),
    Item("v3", SnippetA, ContentDetails(IsoOfSeconds(DirectMin))),
    Item("v3", SnippetA, ContentDetails(NoMatchDuration)),
    Item("v3", NoSnippet, ContentDetails(IsoOfSeconds(DirectMin))),
    Item("v2", SnippetA, NoContentDetails),
    Item("v1", SnippetA, ContentDetails(UndefinedDuration)) }

DirectSources ==
  { Source(search, DetailsOk(<<>>)) :
      search \in {SearchThrow, SearchOk(<<>>), SearchOk(<<"">>)}
                 \cup { SearchHttp(status, FALSE, Undefined, "") : status \in {400, 403, 500} }
                 \cup { SearchHttp(status, TRUE, code, message) :
                          status \in {400, 403, 500},
                          code \in {Undefined, 400, 403},
                          message \in {"", "The request cannot be completed."} } }
  \cup { Source(SearchOk(<<"v1">>), details) :
           details \in {DetailsThrow, DetailsHttp(403), DetailsHttp(500)}
                       \cup { DetailsOk(items) : items \in SeqsUpTo(DirectItems, MaxDetails) } }

Call(maxResults, minDurationSeconds, maxDurationSeconds, src) ==
  [maxResults |-> maxResults, minDurationSeconds |-> minDurationSeconds,
   maxDurationSeconds |-> maxDurationSeconds,
   search |-> src.search, details |-> src.details, called |-> TRUE]

CallSearchVideos ==
  /\ ~svCall.called
  /\ \E maxResults \in 0..MaxResultsArg,
        minDurationSeconds \in {Undefined, DirectMin},
        maxDurationSeconds \in {Undefined, DirectMax},
        src \in DirectSources :
       /\ svCall' = Call(maxResults, minDurationSeconds, maxDurationSeconds, src)
       /\ svResult' = searchVideos(maxResults, minDurationSeconds, maxDurationSeconds,
                                   src.search, src.details)
  /\ UNCHANGED <<appVars, frameVars, fdVars, mgVars>>

NextSearch == CallSearchVideos

SpecSearch == Init /\ [][NextSearch]_vars

(***************************************************************************)
(* Properties.                                                             *)
(***************************************************************************)
InBand(raw, range) ==
  /\ raw.kind = "iso"
  /\ range.min <= TotalSeconds(raw)
  /\ TotalSeconds(raw) <= range.max

\* the catalog fields of suggestion s are those of entry v
BuiltFrom(s, v) ==
  /\ s.title = v.title
  /\ s.youtubeUrl = "https://www.youtube.com/watch?v=" \o v.videoId
  /\ s.thumbnailUrl = v.thumbnailUrl
  /\ s.channelName = v.channelName
  /\ s.duration = v.durationFormatted

\* entry v was returned by one of the searches of this request
FromCatalog(v) ==
  \E k \in DOMAIN searchLog :
    \E j \in DOMAIN searchLog[k].videos : searchLog[k].videos[j] = v

\* the oracle's answer parsed and names an identity outside the candidate set
NamesOutsider ==
  /\ oracleCalls = 1
  /\ oracleResponse.kind = "object"
  /\ oracleResponse.selectedVideoId.present
  /\ oracleResponse.selectedVideoId.value # ""
  /\ \A i \in DOMAIN uniqueVideos :
       uniqueVideos[i].videoId # oracleResponse.selectedVideoId.value

\* C1: a call of fetchVideoSuggestion that returns (instead of failing)
\* returns a suggestion built from an entry that a catalog search of this
\* request returned and whose duration in seconds lies within
\* getDurationRange(target), whatever the catalog and the oracle answered.
C1_SuggestionWithinBand ==
  (pc = "returned" /\ result.ok) =>
     \E i \in DOMAIN uniqueVideos :
        /\ BuiltFrom(result.suggestion, uniqueVideos[i])
        /\ FromCatalog(uniqueVideos[i])
        /\ InBand(uniqueVideos[i].duration, getDurationRange(time))

\* C1 witness: the oracle named an identity outside the candidate set, the
\* source had listed videos just outside both ends of the band, and a
\* suggestion was returned for a video at the upper end of the band.
C1_Witness ==
  /\ pc = "returned" /\ result.ok /\ NamesOutsider
  /\ Len(searchLog) = 2
  /\ searchLog[1].ok /\ searchLog[1].videos = <<>>
  /\ TotalSeconds(uniqueVideos[1].duration) = getDurationRange(time).max
  /\ time = 120

\* C2 (as claimed): every identity of the merged results occurs exactly once
\* in the candidate set, bound to the entry of its first occurrence in merge
\* order.
C2_FirstOccurrenceKept ==
  pc \in {"selecting", "returned"} =>
    \A k \in DOMAIN allVideos :
      (\A j \in 1..(k - 1) : allVideos[j].videoId # allVideos[k].videoId) =>
         /\ Cardinality({i \in DOMAIN uniqueVideos :
                           uniqueVideos[i].videoId = allVideos[k].videoId}) = 1
         /\ \E i \in DOMAIN uniqueVideos : uniqueVideos[i] = allVideos[k]

\* C3: when the oracle's answer parses and names an identity that is not in
\* the candidate set, the call returns a suggestion whose watch URL, title,
\* channel, thumbnail and duration are those of the candidate at index 0.
C3_FallbackIsFirstCandidate ==
  (pc = "returned" /\ NamesOutsider) =>
     /\ result.ok
     /\ result.suggestion.youtubeUrl =
          "https://www.youtube.com/watch?v=" \o uniqueVideos[1].videoId
     /\ result.suggestion.title = uniqueVideos[1].title
     /\ result.suggestion.channelName = uniqueVideos[1].channelName
     /\ result.suggestion.thumbnailUrl = uniqueVideos[1].thumbnailUrl
     /\ result.suggestion.duration = uniqueVideos[1].durationFormatted

\* C3 witness: a fallback with two candidates that differ in every field.
C3_Witness ==
  /\ pc = "returned" /\ NamesOutsider
  /\ Len(uniqueVideos) = 2
  /\ uniqueVideos[1].videoId = "v2"
  /\ uniqueVideos[1].title # uniqueVideos[2].title
  /\ uniqueVideos[1].durationFormatted # uniqueVideos[2].durationFormatted

\* C4 (as claimed): getDurationRange(15) is {720, 1800} and
\* getDurationRange(5) is {60, 600}.
C4_BandOf15And5 ==
  /\ (pc # "idle" /\ time = 15) => durationRange = [min |-> 720, max |-> 1800]
  /\ (pc # "idle" /\ time = 5) => durationRange = [min |-> 60, max |-> 600]

\* C4 (amended): getDurationRange(15) is {720, 1800} and getDurationRange(5)
\* is {240, 600}; the 60-second clamp does not act for target 5.
C4_BandOf15And5Amended ==
  /\ (pc # "idle" /\ time = 15) => durationRange = [min |-> 720, max |-> 1800]
  /\ (pc # "idle" /\ time = 5) => durationRange = [min |-> 240, max |-> 600]

\* C4 witness: a request made with target 5 has computed its band.
C4_Witness == pc = "searching" /\ time = 5 /\ durationRange.max = 600

RECURSIVE KeptVideos(_)
KeptVideos(log) ==
  IF log = <<>> THEN <<>>
  ELSE (IF Head(log).ok THEN Head(log).videos ELSE <<>>) \o KeptVideos(Tail(log))

\* C5: a failed mood search never ends the request: when the call settles
\* every mood has been searched, in order; the videos of the successful
\* searches are all kept; and the call fails with the 'No videos found'
\* error exactly when the deduplicated candidate set is empty.
C5_FailedSearchSkipped ==
  /\ pc \in {"selecting", "returned"} =>
       /\ Len(searchLog) = Len(moods)
       /\ \A i \in DOMAIN searchLog : searchLog[i].query = SearchQueries(moods)[i]
  /\ pc # "idle" => allVideos = KeptVideos(searchLog)
  /\ pc = "returned" =>
       ((~result.ok /\ result.error = MsgNoVideos) <=> UniqueVideos(allVideos) = <<>>)

\* C5 witness: the first mood search failed, the second one succeeded and the
\* request returned a suggestion.
C5_Witness ==
  /\ pc = "returned" /\ result.ok
  /\ Len(searchLog) = 2
  /\ ~searchLog[1].ok
  /\ searchLog[2].ok /\ searchLog[2].videos # <<>>

\* the direct searchVideos call reached the videos request
DetailsRequested ==
  /\ svCall.called
  /\ svCall.search.kind = "ok"
  /\ VideoIds(svCall.search.ids) # <<>>

\* the source answered the search request, or the videos request, with a
\* non-2xx response of that status class
AnsweredNon2xx(is403) ==
  \/ /\ svCall.called
     /\ svCall.search.kind = "http"
     /\ (svCall.search.status = 403) = is403
  \/ /\ DetailsRequested
     /\ svCall.details.kind = "http"
     /\ (svCall.details.status = 403) = is403

GenericCatalogError(message) ==
  \/ message = MsgDetails
  \/ /\ Len(message) >= Len(MsgSearchApi)
     /\ SubSeq(message, 1, Len(MsgSearchApi)) = MsgSearchApi

\* C6 (as claimed): searchVideos fails with the quota/API-key error whenever
\* the source answers the search call or the metadata call with HTTP 403,
\* and with the generic catalog request error for every other non-2xx
\* response.
C6_QuotaErrorDistinct ==
  /\ AnsweredNon2xx(TRUE) => (~svResult.ok /\ svResult.error = MsgQuota)
  /\ AnsweredNon2xx(FALSE) => (~svResult.ok /\ GenericCatalogError(svResult.error))

\* every mood search of the request was rejected by the catalog with the
\* quota/API-key error
AllSearchesRejectedForQuota ==
  /\ pc = "returned"
  /\ searchLog # <<>>
  /\ \A i \in DOMAIN searchLog : ~searchLog[i].ok /\ searchLog[i].error = MsgQuota

\* C7 (as claimed): when the catalog rejects the mood searches of a request
\* for authentication/quota reasons, the caller receives an error that names
\* the credential/quota cause and is not the 'No videos found' error.
C7_QuotaReachesCaller ==
  AllSearchesRejectedForQuota =>
     /\ ~result.ok
     /\ result.error \in {MsgQuota, MsgApiQuota, MsgApiKey}
     /\ result.error # MsgNoVideos

\* the oracle's answer is not JSON, or lacks one of the required fields
OracleResponseIncomplete ==
  /\ oracleCalls = 1
  /\ oracleResponse.kind # "throw"
  /\ \/ oracleResponse.kind \in {"invalid", "null"}
     \/ ~oracleResponse.selectedVideoId.present
     \/ ~oracleResponse.tags.present
     \/ ~oracleResponse.promotionalSummary.present

\* C8 (as claimed): the call fails with the invalid-oracle-response error
\* whenever the oracle's text does not parse or lacks selectedVideoId, tags or
\* promotionalSummary; no suggestion is built from such a response.
C8_IncompleteResponseRejected ==
  (pc = "returned" /\ OracleResponseIncomplete) =>
     /\ ~result.ok
     /\ result.error \in {MsgInvalidJson, MsgNoSelection}

\* what the caller would have received had the oracle itself selected the
\* first candidate, with the same candidate set, tags and summary
FirstSelectedOutcome ==
  Outcome(Select(uniqueVideos,
                 [oracleResponse EXCEPT !.selectedVideoId = Present(uniqueVideos[1].videoId)],
                 time))

\* C9 (as claimed): after a fallback to the first candidate the value the
\* caller receives differs from the value it receives when the oracle selected
\* the first candidate with the same candidate set, tags and summary.
C9_FallbackObservable ==
  (pc = "returned" /\ NamesOutsider) => result # FirstSelectedOutcome

\* videos is a subsequence of the entries made from items, in their order
IsOrderedSelection(videos, items) ==
  \E f \in [1..Len(videos) -> 1..Len(items)] :
     /\ \A k \in 1..Len(videos) : videos[k] = VideoData(items[f[k]])
     /\ \A k \in 1..(Len(videos) - 1) : f[k] < f[k + 1]

WithinArgs(raw, call) ==
  /\ raw.kind = "iso"
  /\ call.minDurationSeconds # Undefined => call.minDurationSeconds <= TotalSeconds(raw)
  /\ call.maxDurationSeconds # Undefined => TotalSeconds(raw) <= call.maxDurationSeconds

\* C10 (as claimed): for every maxResults >= 0 a successful searchVideos call
\* returns at most maxResults entries, each with a parsed duration within the
\* supplied bounds, in the order of the metadata response.
C10_AtMostMaxResults ==
  (svCall.called /\ svResult.ok) =>
     /\ Len(svResult.videos) <= svCall.maxResults
     /\ \A k \in DOMAIN svResult.videos : WithinArgs(svResult.videos[k].duration, svCall)
     /\ IsOrderedSelection(svResult.videos, svCall.details.items)

\* an item the loop can use: snippet and contentDetails present and a duration
\* that parses to a total inside the supplied bounds
UsableItem(video, call) ==
  /\ video.snippet.present
  /\ video.contentDetails.present
  /\ WithinArgs(video.contentDetails.duration, call)

\* the entries of the usable items, in the order of the response
RECURSIVE UsableEntries(_, _)
UsableEntries(items, call) ==
  IF items = <<>> THEN <<>>
  ELSE (IF UsableItem(Head(items), call) THEN <<VideoData(Head(items))>> ELSE <<>>)
       \o UsableEntries(Tail(items), call)

\* C11 (as claimed): an entry of the metadata response whose duration is
\* malformed, unparsable or missing is skipped on its own: the call succeeds
\* and returns every other entry that is within the range, up to maxResults.
C11_BadDurationSkipsOnlyEntry ==
  (/\ DetailsRequested
   /\ svCall.details.kind = "ok"
   /\ svCall.maxResults >= 1) =>
     /\ svResult.ok
     /\ svResult.videos =
          SubSeq(UsableEntries(svCall.details.items, svCall), 1,
                 Min(svCall.maxResults, Len(UsableEntries(svCall.details.items, svCall))))

\* C12: whatever the user does and whenever requests complete, at most one
\* fetchVideoSuggestion call is in flight; while isLoading is true exactly one
\* is, and neither a new request nor a reset can be issued.
C12_SingleRequestInFlight ==
  /\ inFlight <= 1
  /\ isLoading <=> inFlight = 1
  /\ isLoading => (~ENABLED handleFindMoment /\ ~ENABLED handleReset)

\* C12 witness: a request is in flight, waiting for the oracle, after the user
\* had changed both the moods and the time.
C12_Witness ==
  /\ isLoading /\ inFlight = 1 /\ pc = "selecting"
  /\ Len(selectedMoods) = 2
  /\ selectedTime = 60

\* the targets of the dial: 5, 10, ..., 120
DialTargets == {t \in 5..120 : t % 5 = 0}

NamesIdentity ==
  /\ oracleCalls = 1
  /\ oracleResponse.kind = "object"
  /\ oracleResponse.selectedVideoId.present
  /\ oracleResponse.selectedVideoId.value # ""

\* C14: every suggestion returned, on the normal or the fallback path, takes
\* title, thumbnail URL, channel name and formatted duration from one single
\* entry that a catalog search of this request returned, and its watch URL is
\* 'https://www.youtube.com/watch?v=' followed by that entry's identity; on the
\* fallback path the identity named by the oracle appears nowhere in it.
C14_FieldsFromOneCatalogEntry ==
  (pc = "returned" /\ result.ok) =>
     /\ \E k \in DOMAIN searchLog :
          \E j \in DOMAIN searchLog[k].videos :
             LET v == searchLog[k].videos[j]
             IN /\ searchLog[k].ok
                /\ result.suggestion.title = v.title
                /\ result.suggestion.thumbnailUrl = v.thumbnailUrl
                /\ result.suggestion.channelName = v.channelName
                /\ result.suggestion.duration = v.durationFormatted
                /\ result.suggestion.duration = formatDuration(v.duration)
                /\ result.suggestion.youtubeUrl =
                     "https://www.youtube.com/watch?v=" \o v.videoId
     /\ NamesOutsider =>
          result.suggestion.youtubeUrl #
            "https://www.youtube.com/watch?v=" \o oracleResponse.selectedVideoId.value

\* C14 witness: with two candidates the oracle selected the second one, and
\* the suggestion returned carries that candidate's fields.
C14_Witness ==
  /\ pc = "returned" /\ result.ok /\ NamesIdentity
  /\ Len(uniqueVideos) = 2
  /\ oracleResponse.selectedVideoId.value = uniqueVideos[2].videoId
  /\ result.suggestion.title = uniqueVideos[2].title
  /\ uniqueVideos[1].title # uniqueVideos[2].title

\* decimal digits, written independently of ToString
Digit(d) == SubSeq("0123456789", d + 1, d + 1)

RECURSIVE Decimal(_)
Decimal(n) == IF n < 10 THEN Digit(n) ELSE Decimal(n \div 10) \o Digit(n % 10)

TwoDigits(n) == IF n < 10 THEN "0" \o Digit(n) ELSE Decimal(n)

\* 'H:MM:SS' when h > 0 and 'M:SS' otherwise, absent components counting 0
Rendered(raw) ==
  LET h == IF raw.h = Undefined THEN 0 ELSE raw.h
      m == IF raw.m = Undefined THEN 0 ELSE raw.m
      s == IF raw.s = Undefined THEN 0 ELSE raw.s
  IN IF raw.kind = "nomatch" THEN "0:00"
     ELSE IF h > 0 THEN Decimal(h) \o ":" \o TwoDigits(m) \o ":" \o TwoDigits(s)
     ELSE Decimal(m) \o ":" \o TwoDigits(s)

\* C15: formatDuration maps a duration with components (h, m, s), each
\* optional and counting 0 when absent, to 'H:MM:SS' when h > 0 and to 'M:SS'
\* otherwise, with minutes (after hours) and seconds padded to two digits, and
\* an empty or unmatched string to '0:00'; PT1H2M3S gives 1:02:03, PT5M gives
\* 5:00, PT45S gives 0:45, and a second call on the same input returns the
\* same string.
C15_FormatDuration ==
  /\ \A i \in DOMAIN fdResult : fdResult[i] = Rendered(fdDuration)
  /\ Len(fdResult) = 2 => fdResult[1] = fdResult[2]
  /\ fdResult # <<>> =>
       /\ fdDuration = Iso(1, 2, 3) => fdResult[1] = "1:02:03"
       /\ fdDuration = Iso(Undefined, 5, Undefined) => fdResult[1] = "5:00"
       /\ fdDuration = Iso(Undefined, Undefined, 45) => fdResult[1] = "0:45"
       /\ fdDuration = NoMatchDuration => fdResult[1] = "0:00"
       /\ fdDuration = Iso(Undefined, Undefined, Undefined) => fdResult[1] = "0:00"

\* C15 witness: PT1H2M3S was formatted twice and gave 1:02:03 both times.
C15_Witness ==
  /\ fdDuration = Iso(1, 2, 3)
  /\ fdResult = <<"1:02:03", "1:02:03">>

\* positions of allVideos holding the first occurrence of their identity
FirstOccurrences(videos) ==
  { i \in DOMAIN videos :
      \A j \in 1..(i - 1) : videos[j].videoId # videos[i].videoId }

\* the k-th smallest member of a set of positions
Nth(positions, k) ==
  CHOOSE i \in positions : Cardinality({j \in positions : j < i}) = k - 1

\* C16: the candidate list presented to the oracle contains no identity
\* twice, has at most 20 entries, and its identities are exactly the first 20
\* distinct identities of the merged results in merge order: duplicates do not
\* consume cap slots.
C16_First20DistinctIdentities ==
  mgCalled =>
    LET firsts == FirstOccurrences(mgAllVideos)
    IN /\ Len(mgUniqueVideos) <= 20
       /\ \A i, j \in DOMAIN mgUniqueVideos :
            i # j => mgUniqueVideos[i].videoId # mgUniqueVideos[j].videoId
       /\ Len(mgUniqueVideos) = Min(20, Cardinality(firsts))
       /\ \A k \in DOMAIN mgUniqueVideos :
            mgUniqueVideos[k].videoId = mgAllVideos[Nth(firsts, k)].videoId

\* C16 witness: 22 merged results with 21 distinct identities, one of the
\* first 20 entries being a duplicate, gave 20 candidates ending with the
\* 21st entry of the merged list.
C16_Witness ==
  /\ mgCalled
  /\ Len(mgAllVideos) = 22
  /\ Cardinality(FirstOccurrences(mgAllVideos)) = 21
  /\ 21 \in FirstOccurrences(mgAllVideos)
  /\ Len(mgUniqueVideos) = 20
  /\ mgUniqueVideos[20].videoId = mgAllVideos[21].videoId

\* C17: within one fetchVideoSuggestion call the searches made so far are the
\* searches of the first moods in mood-list order, one per mood, each with
\* the band of the requested time and the per-query cap 15; a failed search
\* is not repeated; the oracle is invoked at most once, only after every mood
\* was searched and only with a non-empty candidate list.
C17_OneSearchPerMoodOneOracleCall ==
  /\ pc # "idle" =>
       /\ Len(searchLog) <= Len(moods)
       /\ \A i \in DOMAIN searchLog :
            /\ searchLog[i].query = SearchQuery(moods[i])
            /\ searchLog[i].maxResults = 15
            /\ searchLog[i].minDurationSeconds = getDurationRange(time).min
            /\ searchLog[i].maxDurationSeconds = getDurationRange(time).max
  /\ pc = "searching" => (qi = Len(searchLog) + 1 /\ oracleCalls = 0)
  /\ oracleCalls <= 1
  /\ pc = "selecting" => oracleCalls = 1
  /\ oracleCalls = 1 =>
       /\ pc \in {"selecting", "returned"}
       /\ Len(searchLog) = Len(moods)
       /\ uniqueVideos # <<>>
  /\ (pc = "returned" /\ oracleCalls = 0) => uniqueVideos = <<>>

\* C17 witness: of two mood searches the second failed and was not repeated;
\* the oracle was then invoked once on the candidates of the first.
C17_Witness ==
  /\ pc = "returned"
  /\ Len(moods) = 2 /\ Len(searchLog) = 2
  /\ searchLog[1].ok /\ ~searchLog[2].ok
  /\ oracleCalls = 1
  /\ oracleResponse.kind = "throw"

\* a duration of d seconds belongs to the bucket named by the hint: short up
\* to 240 s, medium above 240 s and up to 1200 s, long above 1200 s
InBucket(d, videoDuration) ==
  CASE videoDuration = "short" -> d <= 240
    [] videoDuration = "medium" -> d > 240 /\ d <= 1200
    [] videoDuration = "long" -> d > 1200
    [] OTHER -> TRUE

\* C18: the bucket hint that every search of a request sends to the source
\* covers the whole band of the requested time: every duration between the
\* band's min and max belongs to the hinted bucket.
C18_HintCoversBand ==
  \A i \in DOMAIN searchLog :
     \A d \in searchLog[i].minDurationSeconds..searchLog[i].maxDurationSeconds :
        InBucket(d, searchLog[i].videoDuration)

\* exactly one of suggestion and error is set
ExactlyOneOutcome == (suggestion # NullSuggestion) # (error # "")

\* C19: suggestion and error are never both set; the step that ends a request
\* leaves exactly one of them set; a displayed suggestion changes only by
\* being cleared, by a reset or by the start of the next request; and every
\* request started, its awaited calls settling, reaches isLoading = FALSE with
\* exactly one of them set.
C19_RequestResolvesToOneOutcome ==
  /\ [](~(suggestion # NullSuggestion /\ error # ""))
  /\ [][(isLoading /\ ~isLoading') => ExactlyOneOutcome']_vars
  /\ [][(suggestion # NullSuggestion /\ suggestion' # suggestion) =>
          (suggestion' = NullSuggestion /\ (handleReset \/ handleFindMoment))]_vars
  /\ (isLoading ~> (~isLoading /\ ExactlyOneOutcome))

\* C19 witness: a request has resolved to a suggestion, which is displayed
\* with no error and no request in progress.
C19_Witness ==
  /\ ~isLoading /\ pc = "idle" /\ inFlight = 0
  /\ suggestion # NullSuggestion /\ error = ""
  /\ ResetRendered /\ ~FormRendered

====
